---- MODULE Spec2Model ----
(***************************************************************************)
(* jira_tools: the JiraClient session, the IssueFetcher pagination loop    *)
(* and the ChangelogFetcher, as one sequential state machine.  A caller    *)
(* invokes one operation at a time on one JiraClient; a fetch routine runs *)
(* one transport call per step until it returns or raises.  The transport  *)
(* (the jira library and the server behind it) is a black box: each call   *)
(* either raises or answers, chosen nondeterministically.  Config, its      *)
(* from_env and __repr__ are functions of their arguments, with a str as    *)
(* the sequence of its characters; a command of the command line is one     *)
(* process that builds a Config, enters a JiraClient and runs one fetch.    *)
(***************************************************************************)
EXTENDS Integers, Sequences, FiniteSets, TLC

VARIABLES
    _client,      \* JiraClient._client: None or the handle it holds
    opened,       \* number of transport handles this client has opened
    alive,        \* handles opened and not yet closed
    closed,       \* history: the handles close() was called on, in order
    lastConnect,  \* history: how the latest connect()/disconnect() ended
    server,       \* the remote server's issues, by issue number
    frame,        \* the running (or last finished) operation and its locals
    calls,        \* JiraClient.search_issues / get_issue calls of that operation
    result,       \* what the last finished operation returned or raised
    command       \* the command-line command of this process, if one runs

vars == <<_client, opened, alive, closed, lastConnect, server, frame, calls,
          result, command>>

-----------------------------------------------------------------------------
(* Bounds of the model *)

MaxHandles == 2     \* handles one client creates
MaxBatch == 2       \* largest batch_size (page size)
MaxCalls == 3       \* search calls of one fetch
MaxKeys == 2        \* length of an issue_keys argument
MaxHist == 2        \* history entries of one issue
MaxItems == 2       \* changed fields of one history entry
MaxStr == 3         \* characters of a str of the settings
MaxFields == 2      \* length of a fields argument of _extract_issue_fields

None == 0

-----------------------------------------------------------------------------
(* Exceptions: the raised exception followed by its __cause__ chain *)

NoExc == <<>>

Exc(type, status_code) == <<[type |-> type, status_code |-> status_code]>>

JIRAError(status_code) == Exc("JIRAError", status_code)

RaiseFrom(type, e) == Exc(type, 0) \o e

\* what JIRA(...) or server_info() may raise
ConnectFailures ==
    {JIRAError(401), JIRAError(403), JIRAError(500), Exc("Exception", 0)}

\* what a search or an issue request may raise
TransportFailures == {JIRAError(500), Exc("Exception", 0)}

-----------------------------------------------------------------------------
(* JiraClient *)

\* the client and the handles it has opened
session == <<_client, opened, alive, closed, lastConnect>>

Cl == [_client |-> _client, opened |-> opened, alive |-> alive,
       closed |-> closed, lastConnect |-> lastConnect]

SetClient(c) ==
    /\ _client' = c._client
    /\ opened' = c.opened
    /\ alive' = c.alive
    /\ closed' = c.closed
    /\ lastConnect' = c.lastConnect

\* except clauses that took only 401 for a credential failure
ConnectErrorOnly401(e) ==
    IF e[1].type = "JIRAError" /\ e[1].status_code = 401
    THEN RaiseFrom("AuthenticationError", e)
    ELSE RaiseFrom("ConnectionError", e)

\* the except clauses of connect()
ConnectError(e) ==
    IF e[1].type = "JIRAError"
    THEN IF e[1].status_code = 401 THEN RaiseFrom("AuthenticationError", e)
         ELSE IF e[1].status_code = 403 THEN RaiseFrom("AuthenticationError", e)
         ELSE RaiseFrom("ConnectionError", e)
    ELSE RaiseFrom("ConnectionError", e)

\* a connect() that made a handle and went on holding the one it had
NewHandleKeepsFirst(c) ==
    [c EXCEPT !._client = IF c._client # None THEN c._client ELSE c.opened + 1,
              !.opened = c.opened + 1,
              !.alive = c.alive \cup {c.opened + 1}]

\* self._client = JIRA(...): the assignment happens only when JIRA() returned
NewHandle(c) ==
    [c EXCEPT !._client = c.opened + 1,
              !.opened = c.opened + 1,
              !.alive = c.alive \cup {c.opened + 1}]

\* connect(): ctor is what JIRA(...) raises, probe what server_info() raises
connect(c, ctor, probe) ==
    IF ctor # NoExc
    THEN [c |-> [c EXCEPT !.lastConnect = "failed"], exc |-> ConnectError(ctor)]
    ELSE IF probe # NoExc
    THEN [c |-> [NewHandle(c) EXCEPT !.lastConnect = "failed"],
          exc |-> ConnectError(probe)]
    ELSE [c |-> [NewHandle(c) EXCEPT !.lastConnect = "ok"], exc |-> NoExc]

\* self._client.close()
close(c, handle) ==
    [c EXCEPT !.alive = c.alive \ {handle}, !.closed = Append(c.closed, handle)]

\* a disconnect() that closed the handle and went on holding it
DisconnectKeepsHandle(c) ==
    IF c._client # None
    THEN [close(c, c._client) EXCEPT !.lastConnect = "disconnected"]
    ELSE [c EXCEPT !.lastConnect = "disconnected"]

disconnect(c) ==
    IF c._client # None
    THEN [close(c, c._client) EXCEPT !._client = None,
                                     !.lastConnect = "disconnected"]
    ELSE [c EXCEPT !.lastConnect = "disconnected"]

is_connected == _client # None

\* how a handshake can go: what JIRA(...) raises, then what server_info() raises
ConnectOutcomes ==
    {<<NoExc, NoExc>>}
    \cup {<<e, NoExc>> : e \in ConnectFailures}
    \cup {<<NoExc, e>> : e \in ConnectFailures}

\* the outcomes of the handshake a call may have to make
Handshakes(c) == IF c._client = None THEN ConnectOutcomes ELSE {<<NoExc, NoExc>>}

\* a client property that connected on every use
ClientReconnects(c, hs) == connect(c, hs[1], hs[2]) @@ [connects |-> 1]

\* the client property: connect on first use; connects counts its connect() calls
client(c, hs) ==
    IF c._client = None
    THEN connect(c, hs[1], hs[2]) @@ [connects |-> 1]
    ELSE [c |-> c, exc |-> NoExc, connects |-> 0]

-----------------------------------------------------------------------------
(* The transport *)

\* a page of n issues of a search that starts at offset startAt
Page(startAt, n) == [i \in 1..n |-> startAt + i]

SearchResponses(startAt, maxResults) ==
    {[exc |-> NoExc, issues |-> Page(startAt, n)] : n \in 0..maxResults}
    \cup {[exc |-> e, issues |-> <<>>] : e \in TransportFailures}

\* JiraClient.search_issues: the handle, then the transport's answer
search_issues(c, hs, jql, start_at, max_results, fields, resp) ==
    LET p == client(c, hs)
        call == [fn |-> "search_issues", jql |-> jql, start_at |-> start_at,
                 max_results |-> max_results, fields |-> fields]
    IN  IF p.exc # NoExc
        THEN [c |-> p.c, exc |-> p.exc, issues |-> <<>>,
              call |-> call @@ [handle |-> None, exc |-> p.exc, n |-> 0,
                                connects |-> p.connects]]
        ELSE [c |-> p.c, exc |-> resp.exc, issues |-> resp.issues,
              call |-> call @@ [handle |-> p.c._client, exc |-> resp.exc,
                                n |-> Len(resp.issues), connects |-> p.connects]]

-----------------------------------------------------------------------------
(* The server's issues *)

\* Python values: None, a string, a bool, a list, or a resource of the jira
\* library (a user, a status, a component) with its printed form and attributes
PyNone == [t |-> "None"]

PyStr(s) == [t |-> "str", s |-> s]

PyBool(b) == [t |-> "bool", b |-> b]

PyList(xs) == [t |-> "list", xs |-> xs]

Resource(printed, attrs) == [t |-> "resource", printed |-> printed, attrs |-> attrs]

\* bool(v)
Truthy(v) ==
    CASE v.t = "None" -> FALSE
      [] v.t = "str" -> v.s # ""
      [] v.t = "bool" -> v.b
      [] v.t = "list" -> v.xs # <<>>
      [] OTHER -> TRUE

\* str(v)
str(v) ==
    CASE v.t = "None" -> PyStr("None")
      [] v.t = "str" -> v
      [] v.t = "bool" -> PyStr(IF v.b THEN "True" ELSE "False")
      [] v.t = "list" -> PyStr("[...]")
      [] OTHER -> PyStr(v.printed)

\* None where a call takes an optional string
Null == "None"

Alice == Resource("Alice", <<>>)

ItemField(i) == CASE i = 1 -> "status" [] i = 2 -> "assignee" [] OTHER -> "priority"

ItemString(v) == CASE v = 1 -> "Open" [] v = 2 -> "In Progress" [] OTHER -> "Done"

\* the i-th changed field of a history entry
Item(i) ==
    [field |-> ItemField(i), fieldtype |-> "jira",
     from |-> i, fromString |-> ItemString(i),
     to |-> i + 1, toString |-> ItemString(i + 1)]

Items(n) == [i \in 1..n |-> Item(i)]

\* a history entry; one without the items attribute cannot be flattened
History(author, created, n) ==
    [author |-> author, created |-> created, has_items |-> TRUE, items |-> Items(n)]

BadHistory == [author |-> PyNone, created |-> 0, has_items |-> FALSE, items |-> <<>>]

Histories ==
    {History(PyNone, 1, n) : n \in 0..MaxItems}
    \cup {History(Alice, 2, n) : n \in 0..MaxItems}
    \cup {BadHistory}

NoChangelog == [has_changelog |-> FALSE, histories |-> <<>>]

Changelog(histories) == [has_changelog |-> TRUE, histories |-> histories]

\* every issue within the bounds
IssueShapes ==
    {NoChangelog}
    \cup {Changelog(hs) : hs \in UNION {[1..n -> Histories] : n \in 0..MaxHist}}

\* the fields of an issue as the tests build them
FullFields ==
    [summary |-> PyStr("Test Summary"),
     description |-> PyStr("Test description"),
     assignee |-> Resource("Test User", <<>>),
     creator |-> Resource("Creator User", <<>>),
     reporter |-> Resource("Reporter User", <<>>),
     created |-> PyStr("2024-01-01T10:00:00.000+0000"),
     updated |-> PyStr("2024-01-02T10:00:00.000+0000"),
     components |-> PyList(<<>>),
     fixVersions |-> PyList(<<>>),
     issuetype |-> Resource("Bug", [name |-> PyStr("Bug"), subtask |-> PyBool(FALSE)]),
     priority |-> Resource("High", [name |-> PyStr("High")]),
     resolution |-> PyNone,
     resolutiondate |-> PyNone,
     status |-> Resource("Open", [name |-> PyStr("Open"),
                                  description |-> PyStr("Status description")])]

\* fields with attributes unset, absent and filled, and a custom field
SparseFields ==
    [summary |-> PyStr(""),
     assignee |-> PyNone,
     creator |-> Resource("Creator User", <<>>),
     created |-> PyStr("2024-01-01T10:00:00.000+0000"),
     components |-> PyList(<<Resource("api", <<>>), Resource("ui", <<>>)>>),
     fixVersions |-> PyNone,
     issuetype |-> Resource("Sub-task", [name |-> PyStr("Sub-task"),
                                         subtask |-> PyBool(TRUE)]),
     priority |-> PyNone,
     resolution |-> Resource("Fixed", <<>>),
     resolutiondate |-> PyStr("2024-01-03T10:00:00.000+0000"),
     status |-> Resource("Done", <<>>),
     labels |-> PyList(<<PyStr("backend")>>)]

WithFields(fields) == [has_fields |-> TRUE, fields |-> fields]

NoFields == [has_fields |-> FALSE, fields |-> <<>>]

FixtureFields(k) ==
    CASE k % 3 = 1 -> WithFields(FullFields)
      [] k % 3 = 2 -> WithFields(SparseFields)
      [] OTHER -> NoFields

\* the issue numbers a search can return
ServerKeys == 1..(MaxCalls * MaxBatch)

\* a server whose issues have and lack histories, items and the changelog itself
FixtureIssue(k) ==
    CASE k % 4 = 1 -> Changelog(<<History(Alice, 2, 2), History(PyNone, 1, 1)>>)
      [] k % 4 = 2 -> NoChangelog
      [] k % 4 = 3 -> Changelog(<<History(Alice, 2, 1), BadHistory>>)
      [] OTHER -> Changelog(<<>>)

FixtureServer == [k \in ServerKeys |-> FixtureIssue(k) @@ FixtureFields(k)]

\* the issue object of issue number k
Issue(k) == [key |-> k] @@ server[k]

NoIssue == [key |-> None] @@ NoChangelog @@ NoFields

IssueResponses(issue_key) ==
    {[exc |-> NoExc, issue |-> Issue(issue_key)]}
    \cup {[exc |-> e, issue |-> NoIssue] : e \in TransportFailures}

\* JiraClient.get_issue: the handle, then the transport's answer
get_issue(c, hs, issue_key, expand, resp) ==
    LET p == client(c, hs)
        call == [fn |-> "get_issue", issue_key |-> issue_key, expand |-> expand]
    IN  IF p.exc # NoExc
        THEN [c |-> p.c, exc |-> p.exc, issue |-> NoIssue,
              call |-> call @@ [handle |-> None, exc |-> p.exc,
                                connects |-> p.connects]]
        ELSE [c |-> p.c, exc |-> resp.exc, issue |-> resp.issue,
              call |-> call @@ [handle |-> p.c._client, exc |-> resp.exc,
                                connects |-> p.connects]]

-----------------------------------------------------------------------------
(* Results *)

Idle == [op |-> "idle", pc |-> "idle"]

NoResult == [kind |-> "none", table |-> <<>>, exc |-> NoExc]

Return(table) == [kind |-> "return", table |-> table, exc |-> NoExc]

Raise(e) == [kind |-> "raise", table |-> <<>>, exc |-> e]

\* no command-line command runs: the caller uses the library
NoCommand == [name |-> "none", pc |-> "none"]

\* pd.DataFrame(): a table without rows
EmptyDataFrame == <<>>

\* the caller makes one call at a time
CanCall == frame.pc = "idle"

CanConnect == opened < MaxHandles

-----------------------------------------------------------------------------
(* Arguments of the calls *)

\* project = '<project>', AND <jql_filter> when the filter is not empty
ProjectJql(project, jql_filter) ==
    IF jql_filter # ""
    THEN "project = '" \o project \o "'" \o " AND " \o jql_filter
    ELSE "project = '" \o project \o "'"

Projects == {"PROJ"}

\* None and "" are both no filter
JqlFilters == {"", "status = Done"}

Jqls == {ProjectJql(p, f) : p \in Projects, f \in JqlFilters}

BatchSizes == 1..MaxBatch

-----------------------------------------------------------------------------
(* Operations on the client *)

Connect ==
    /\ CanCall
    /\ CanConnect
    /\ \E hs \in ConnectOutcomes :
         LET r == connect(Cl, hs[1], hs[2])
         IN  /\ SetClient(r.c)
             /\ result' = IF r.exc = NoExc THEN Return(EmptyDataFrame) ELSE Raise(r.exc)
    /\ frame' = [op |-> "connect", pc |-> "done"]
    /\ calls' = <<>>
    /\ UNCHANGED <<server, command>>

Disconnect ==
    /\ CanCall
    /\ SetClient(disconnect(Cl))
    /\ result' = Return(EmptyDataFrame)
    /\ frame' = [op |-> "disconnect", pc |-> "done", held |-> _client]
    /\ calls' = <<>>
    /\ UNCHANGED <<server, command>>

\* client.client read directly
ClientProperty ==
    /\ CanCall
    /\ _client = None => CanConnect
    /\ \E hs \in Handshakes(Cl) :
         LET p == client(Cl, hs)
             handle == IF p.exc # NoExc THEN None ELSE p.c._client
         IN  /\ SetClient(p.c)
             /\ calls' = <<[fn |-> "client", handle |-> handle, exc |-> p.exc,
                            connects |-> p.connects]>>
             /\ result' = IF p.exc # NoExc THEN Raise(p.exc) ELSE Return(<<handle>>)
    /\ frame' = [op |-> "client", pc |-> "done"]
    /\ UNCHANGED <<server, command>>

\* client.search_issues(jql, start_at, max_results) called directly
SearchIssues ==
    /\ CanCall
    /\ _client = None => CanConnect
    /\ \E jql \in Jqls, max_results \in BatchSizes :
         \E hs \in Handshakes(Cl), resp \in SearchResponses(0, max_results) :
           LET r == search_issues(Cl, hs, jql, 0, max_results, Null, resp)
           IN  /\ SetClient(r.c)
               /\ calls' = <<r.call>>
               /\ result' = IF r.exc # NoExc THEN Raise(r.exc) ELSE Return(r.issues)
    /\ frame' = [op |-> "search_issues", pc |-> "done"]
    /\ UNCHANGED <<server, command>>

\* client.get_issue(issue_key) called directly
GetIssue ==
    /\ CanCall
    /\ _client = None => CanConnect
    /\ \E issue_key \in ServerKeys :
         \E hs \in Handshakes(Cl), resp \in IssueResponses(issue_key) :
           LET r == get_issue(Cl, hs, issue_key, Null, resp)
           IN  /\ SetClient(r.c)
               /\ calls' = <<r.call>>
               /\ result' = IF r.exc # NoExc THEN Raise(r.exc) ELSE Return(<<r.issue>>)
    /\ frame' = [op |-> "get_issue", pc |-> "done"]
    /\ UNCHANGED <<server, command>>

-----------------------------------------------------------------------------
(* IssueFetcher *)

DEFAULT_FIELDS ==
    <<"key", "assignee", "creator", "reporter", "created", "components",
      "description", "summary", "fixVersions", "issuetype", "priority",
      "resolution", "resolutiondate", "status", "updated">>

\* the fields arguments of the model: None, and a list of the caller's
FieldArgs == {<<>>, <<"key", "subtask", "status_description", "labels", "sprint">>}

Value(v) == [exc |-> NoExc, value |-> v]

AttributeError == [exc |-> Exc("AttributeError", 0), value |-> PyNone]

\* lambda f: str(f.a) if f.a else None
StrOrNone(f, a) ==
    IF a \notin DOMAIN f THEN AttributeError
    ELSE IF Truthy(f[a]) THEN Value(str(f[a])) ELSE Value(PyNone)

\* lambda f: f.a
Raw(f, a) == IF a \notin DOMAIN f THEN AttributeError ELSE Value(f[a])

\* lambda f: [str(c) for c in f.a] if f.a else []
StrList(f, a) ==
    IF a \notin DOMAIN f THEN AttributeError
    ELSE IF Truthy(f[a])
    THEN Value(PyList([i \in 1..Len(f[a].xs) |-> str(f[a].xs[i])]))
    ELSE Value(PyList(<<>>))

\* lambda f: f.a.b if f.a else None
SubAttr(f, a, b) ==
    IF a \notin DOMAIN f THEN AttributeError
    ELSE IF ~Truthy(f[a]) THEN Value(PyNone)
    ELSE IF f[a].t = "resource" /\ b \in DOMAIN f[a].attrs THEN Value(f[a].attrs[b])
    ELSE AttributeError

\* getattr(issue_fields, field, None)
GetAttr(f, field) == IF field \in DOMAIN f THEN Value(f[field]) ELSE Value(PyNone)

_get_field_value(issue, field) ==
    IF field = "key" THEN Value(issue.key)
    ELSE IF ~issue.has_fields THEN AttributeError
    ELSE CASE field \in {"assignee", "creator", "reporter", "resolution"} ->
                StrOrNone(issue.fields, field)
           [] field \in {"created", "description", "summary", "resolutiondate",
                         "updated"} ->
                Raw(issue.fields, field)
           [] field \in {"components", "fixVersions"} -> StrList(issue.fields, field)
           [] field \in {"issuetype", "priority", "status"} ->
                SubAttr(issue.fields, field, "name")
           [] field = "subtask" -> SubAttr(issue.fields, "issuetype", "subtask")
           [] field = "status_description" ->
                SubAttr(issue.fields, "status", "description")
           [] OTHER -> GetAttr(issue.fields, field)

\* record[field] = value, or None when the extraction raised
_extract_issue_fields(issue, fields) ==
    [field \in {fields[i] : i \in 1..Len(fields)} |->
        LET x == _get_field_value(issue, field)
        IN  IF x.exc # NoExc THEN PyNone ELSE x.value]

\* the names field_mapping has a rule for
MappedFields ==
    {"assignee", "creator", "reporter", "created", "components", "description",
     "summary", "fixVersions", "issuetype", "subtask", "priority", "resolution",
     "resolutiondate", "status", "status_description", "updated"}

\* the names a caller asks for: key, the mapped ones, a custom field that some
\* issues have and one that none has
FieldNames == {"key"} \cup MappedFields \cup {"labels", "sprint"}

\* the fields arguments of _extract_issue_fields
FieldLists == UNION {[1..n -> FieldNames] : n \in 0..MaxFields}

\* a loop over the fields without the try of its body
RecordResultUnguarded(issue, fields) ==
    LET failed == {i \in 1..Len(fields) :
                     _get_field_value(issue, fields[i]).exc # NoExc}
    IN  IF failed = {} THEN Return(<<_extract_issue_fields(issue, fields)>>)
        ELSE Raise(_get_field_value(
                     issue, fields[CHOOSE i \in failed : \A j \in failed : i <= j]).exc)

\* _extract_issue_fields(issue, fields) called: the record it returns
RecordResult(issue, fields) == Return(<<_extract_issue_fields(issue, fields)>>)

\* fetcher._extract_issue_fields(issue, fields) on an issue of the server
ExtractIssueFields ==
    /\ CanCall
    /\ \E issue_key \in ServerKeys, fields \in FieldLists :
         /\ frame' = [op |-> "_extract_issue_fields", pc |-> "done",
                      issue_key |-> issue_key, fields |-> fields]
         /\ result' = RecordResult(Issue(issue_key), fields)
    /\ calls' = <<>>
    /\ UNCHANGED <<session, server, command>>

\* pd.DataFrame(records): one row per record, in order
DataFrame(records) == records

\* fields None (here <<>>) stands for DEFAULT_FIELDS
_issues_to_dataframe(issues, fields) ==
    LET fs == IF fields = <<>> THEN DEFAULT_FIELDS ELSE fields
    IN  DataFrame([i \in 1..Len(issues) |->
                      _extract_issue_fields(Issue(issues[i]), fs)])

\* fetch_issues, once _fetch_all_issues has returned
IssuesTable(all_issues, fields) ==
    IF all_issues = <<>> THEN EmptyDataFrame ELSE _issues_to_dataframe(all_issues, fields)

\* a loop that advanced by one issue instead of one page
NextStartByOne(start_at, batch_size) == start_at + 1

\* start_at += self.batch_size
NextStart(start_at, batch_size) == start_at + batch_size

\* a loop that stopped at a full page as well
ShortPageOrFull(issues, batch_size) == Len(issues) <= batch_size

\* if len(issues) < self.batch_size: break
ShortPage(issues, batch_size) == Len(issues) < batch_size

\* all_issues.extend(issues)
Extend(all_issues, issues) == all_issues \o issues

\* raise FetchError(...) without its from e
FetchErrorNoCause(e) == Exc("FetchError", 0)

\* an except clause that let the errors of connect() through as they were
FetchErrorPassesConnectErrors(e) ==
    IF e[1].type \in {"AuthenticationError", "ConnectionError"} THEN e
    ELSE RaiseFrom("FetchError", e)

\* except Exception as e: raise FetchError(...) from e
FetchError(e) == RaiseFrom("FetchError", e)

\* fetch_issues(jql, fields) of a fetcher of that batch_size, entered
IssuesFrame(jql, fields, batch_size) ==
    [op |-> "fetch_issues", pc |-> "search", jql |-> jql,
     fields |-> fields, batch_size |-> batch_size,
     start_at |-> 0, all_issues |-> <<>>]

FetchIssuesStart(jql, fields) ==
    /\ CanCall
    /\ \E batch_size \in BatchSizes : frame' = IssuesFrame(jql, fields, batch_size)
    /\ calls' = <<>>
    /\ result' = NoResult
    /\ UNCHANGED <<session, server, command>>

\* fetch_issues(jql, fields)
FetchIssues == \E jql \in Jqls, fields \in FieldArgs : FetchIssuesStart(jql, fields)

\* fetch_project_issues(project, jql_filter, fields)
FetchProjectIssues ==
    \E project \in Projects, jql_filter \in JqlFilters, fields \in FieldArgs :
        FetchIssuesStart(ProjectJql(project, jql_filter), fields)

\* one turn of the while loop of _fetch_all_issues, and what follows the loop
FetchIssuesSearch ==
    /\ frame.op = "fetch_issues"
    /\ frame.pc = "search"
    /\ Len(calls) < MaxCalls
    /\ _client = None => CanConnect
    /\ \E hs \in Handshakes(Cl),
          resp \in SearchResponses(frame.start_at, frame.batch_size) :
         LET r == search_issues(Cl, hs, frame.jql, frame.start_at,
                                frame.batch_size, Null, resp)
             all == Extend(frame.all_issues, r.issues)
         IN  /\ SetClient(r.c)
             /\ calls' = Append(calls, r.call)
             /\ IF r.exc # NoExc
                THEN /\ frame' = [frame EXCEPT !.pc = "done"]
                     /\ result' = Raise(FetchError(r.exc))
                ELSE IF r.issues = <<>>
                THEN /\ frame' = [frame EXCEPT !.pc = "done"]
                     /\ result' = Return(IssuesTable(frame.all_issues, frame.fields))
                ELSE IF ShortPage(r.issues, frame.batch_size)
                THEN /\ frame' = [frame EXCEPT !.pc = "done", !.all_issues = all]
                     /\ result' = Return(IssuesTable(all, frame.fields))
                ELSE /\ frame' = [frame EXCEPT !.all_issues = all,
                                    !.start_at = NextStart(frame.start_at,
                                                           frame.batch_size)]
                     /\ result' = NoResult
    /\ UNCHANGED <<server, command>>

-----------------------------------------------------------------------------
(* ChangelogFetcher *)

\* the record of one changed field of one history entry
ChangelogRecord(issue, history, item) ==
    [key |-> issue.key,
     author |-> IF Truthy(history.author) THEN str(history.author) ELSE PyNone,
     date |-> history.created,
     field |-> item.field,
     fieldtype |-> item.fieldtype,
     from_value |-> item.from,
     from_string |-> item.fromString,
     to_value |-> item.to,
     to_string |-> item.toString]

\* a flattening that kept only the first changed field of an entry
HistoryRecordsFirstItem(issue, history) ==
    [j \in 1..(IF history.items = <<>> THEN 0 ELSE 1) |->
        ChangelogRecord(issue, history, history.items[j])]

\* for item in history.items: records.append(record)
HistoryRecords(issue, history) ==
    [j \in 1..Len(history.items) |-> ChangelogRecord(issue, history, history.items[j])]

\* for history in changelog.histories, from the i-th on
RECURSIVE ExtractHistories(_, _, _)
ExtractHistories(issue, i, records) ==
    IF i > Len(issue.histories)
    THEN [exc |-> NoExc, records |-> records]
    ELSE IF ~issue.histories[i].has_items
    THEN [exc |-> Exc("AttributeError", 0), records |-> <<>>]
    ELSE ExtractHistories(issue, i + 1,
                          records \o HistoryRecords(issue, issue.histories[i]))

\* a flattening without the hasattr(issue, "changelog") guard
ExtractUnguarded(issue) ==
    IF ~issue.has_changelog
    THEN [exc |-> Exc("AttributeError", 0), records |-> <<>>]
    ELSE ExtractHistories(issue, 1, <<>>)

_extract_changelog_records(issue) ==
    IF ~issue.has_changelog
    THEN [exc |-> NoExc, records |-> <<>>]
    ELSE ExtractHistories(issue, 1, <<>>)

_changelog_to_dataframe(issue) ==
    LET x == _extract_changelog_records(issue)
    IN  IF x.exc # NoExc THEN [exc |-> x.exc, table |-> <<>>]
        ELSE IF x.records = <<>> THEN [exc |-> NoExc, table |-> EmptyDataFrame]
        ELSE [exc |-> NoExc, table |-> DataFrame(x.records)]

\* a fetch_changelog that answered a failed flattening with an empty table
ChangelogResultSwallow(r) ==
    LET x == _changelog_to_dataframe(r.issue)
    IN  IF r.exc # NoExc THEN Raise(FetchError(r.exc)) ELSE Return(x.table)

\* fetch_changelog: what it returns or raises once get_issue has answered r
ChangelogResult(r) ==
    LET x == _changelog_to_dataframe(r.issue)
    IN  IF r.exc # NoExc THEN Raise(FetchError(r.exc))
        ELSE IF x.exc # NoExc THEN Raise(FetchError(x.exc))
        ELSE Return(x.table)

\* fetch_changelog(issue_key)
FetchChangelog ==
    /\ CanCall
    /\ _client = None => CanConnect
    /\ \E issue_key \in ServerKeys :
         \E hs \in Handshakes(Cl), resp \in IssueResponses(issue_key) :
           LET r == get_issue(Cl, hs, issue_key, "changelog", resp)
           IN  /\ SetClient(r.c)
               /\ calls' = <<r.call>>
               /\ frame' = [op |-> "fetch_changelog", pc |-> "done",
                            issue_key |-> issue_key]
               /\ result' = ChangelogResult(r)
    /\ UNCHANGED <<server, command>>

\* the issue_keys arguments of the model
IssueKeyLists == UNION {[1..n -> 1..(MaxKeys + 1)] : n \in 0..MaxKeys}

\* a loop whose except clause dropped what the earlier keys had given
KeyRecordsAbort(all_records, r) ==
    LET x == _extract_changelog_records(r.issue)
    IN  IF r.exc # NoExc THEN <<>>
        ELSE IF x.exc # NoExc THEN <<>>
        ELSE all_records \o x.records

\* a loop that kept the records flattened before a history entry failed
KeyRecordsPartial(all_records, r) ==
    LET x == _extract_changelog_records(r.issue)
        hs == r.issue.histories
        good == {i \in 0..Len(hs) : \A h \in 1..i : hs[h].has_items}
        n == CHOOSE i \in good : \A m \in good : m <= i
        before == [r.issue EXCEPT !.histories = SubSeq(hs, 1, n)]
    IN  IF r.exc # NoExc THEN all_records
        ELSE IF x.exc # NoExc
        THEN all_records \o _extract_changelog_records(before).records
        ELSE all_records \o x.records

\* the try block of the loop of fetch_changelogs_for_issues: all_records after it
KeyRecords(all_records, r) ==
    LET x == _extract_changelog_records(r.issue)
    IN  IF r.exc # NoExc THEN all_records
        ELSE IF x.exc # NoExc THEN all_records
        ELSE all_records \o x.records

\* what follows the loop of fetch_changelogs_for_issues
ChangelogsTable(all_records) ==
    IF all_records = <<>> THEN EmptyDataFrame ELSE DataFrame(all_records)

\* fetch_changelogs_for_issues(issue_keys), entered with its locals
ChangelogsFrame(f, issue_keys) ==
    f @@ [pc |-> IF issue_keys = <<>> THEN "done" ELSE "issues",
          issue_keys |-> issue_keys, idx |-> 0, all_records |-> <<>>]

FetchChangelogsForIssues ==
    /\ CanCall
    /\ \E issue_keys \in IssueKeyLists :
         /\ frame' = ChangelogsFrame([op |-> "fetch_changelogs_for_issues"], issue_keys)
         /\ result' = IF issue_keys = <<>> THEN Return(ChangelogsTable(<<>>))
                      ELSE NoResult
    /\ calls' = <<>>
    /\ UNCHANGED <<session, server, command>>

\* one turn of the for loop of fetch_changelogs_for_issues, and what follows it
FetchChangelogsKey ==
    /\ frame.pc = "issues"
    /\ frame.idx < Len(frame.issue_keys)
    /\ frame.idx < MaxKeys
    /\ _client = None => CanConnect
    /\ LET issue_key == frame.issue_keys[frame.idx + 1]
       IN  \E hs \in Handshakes(Cl), resp \in IssueResponses(issue_key) :
             LET r == get_issue(Cl, hs, issue_key, "changelog", resp)
                 all == KeyRecords(frame.all_records, r)
                 last == frame.idx + 1 = Len(frame.issue_keys)
             IN  /\ SetClient(r.c)
                 /\ calls' = Append(calls, r.call)
                 /\ frame' = [frame EXCEPT !.idx = frame.idx + 1,
                                           !.all_records = all,
                                           !.pc = IF last THEN "done" ELSE "issues"]
                 /\ result' = IF last THEN Return(ChangelogsTable(all)) ELSE NoResult
    /\ UNCHANGED <<server, command>>

\* a loop that put the keys of a page before the keys it had
ExtendKeysFront(issue_keys, issues) ==
    [i \in 1..Len(issues) |-> Issue(issues[i]).key] \o issue_keys

\* issue_keys.extend([issue.key for issue in issues])
ExtendKeys(issue_keys, issues) ==
    issue_keys \o [i \in 1..Len(issues) |-> Issue(issues[i]).key]

\* a fetch_changelogs_for_project that treated an empty project as an error
ProjectKeysResolvedOrRaise(issue_keys) ==
    /\ frame' = ChangelogsFrame(
                    [op |-> frame.op, project |-> frame.project,
                     jql_filter |-> frame.jql_filter, jql |-> frame.jql,
                     batch_size |-> frame.batch_size, start_at |-> frame.start_at],
                    issue_keys)
    /\ result' = IF issue_keys = <<>> THEN Raise(Exc("FetchError", 0)) ELSE NoResult

\* fetch_changelogs_for_project, once the keys are resolved
ProjectKeysResolved(issue_keys) ==
    /\ frame' = ChangelogsFrame(
                    [op |-> frame.op, project |-> frame.project,
                     jql_filter |-> frame.jql_filter, jql |-> frame.jql,
                     batch_size |-> frame.batch_size, start_at |-> frame.start_at],
                    issue_keys)
    /\ result' = IF issue_keys = <<>> THEN Return(EmptyDataFrame) ELSE NoResult

\* fetch_changelogs_for_project(project, jql_filter, batch_size)
\* fetch_changelogs_for_project(project, jql_filter, batch_size), entered
ProjectFrame(project, jql_filter, batch_size) ==
    [op |-> "fetch_changelogs_for_project", pc |-> "keys",
     project |-> project, jql_filter |-> jql_filter,
     jql |-> ProjectJql(project, jql_filter),
     batch_size |-> batch_size, start_at |-> 0, issue_keys |-> <<>>]

FetchChangelogsForProject ==
    /\ CanCall
    /\ \E project \in Projects, jql_filter \in JqlFilters, batch_size \in BatchSizes :
         frame' = ProjectFrame(project, jql_filter, batch_size)
    /\ calls' = <<>>
    /\ result' = NoResult
    /\ UNCHANGED <<session, server, command>>

\* one turn of the while loop of fetch_changelogs_for_project, and what follows it
FetchProjectKeys ==
    /\ frame.op = "fetch_changelogs_for_project"
    /\ frame.pc = "keys"
    /\ Len(calls) < MaxCalls
    /\ _client = None => CanConnect
    /\ \E hs \in Handshakes(Cl),
          resp \in SearchResponses(frame.start_at, frame.batch_size) :
         LET r == search_issues(Cl, hs, frame.jql, frame.start_at,
                                frame.batch_size, "key", resp)
             keys == ExtendKeys(frame.issue_keys, r.issues)
         IN  /\ SetClient(r.c)
             /\ calls' = Append(calls, r.call)
             /\ IF r.exc # NoExc
                THEN /\ frame' = [frame EXCEPT !.pc = "done"]
                     /\ result' = Raise(r.exc)
                ELSE IF r.issues = <<>>
                THEN ProjectKeysResolved(frame.issue_keys)
                ELSE IF ShortPage(r.issues, frame.batch_size)
                THEN ProjectKeysResolved(keys)
                ELSE /\ frame' = [frame EXCEPT !.issue_keys = keys,
                                    !.start_at = NextStart(frame.start_at,
                                                           frame.batch_size)]
                     /\ result' = NoResult
    /\ UNCHANGED <<server, command>>

-----------------------------------------------------------------------------
(* Config *)

\* a str of the settings is the sequence of its characters
Strs(alphabet, n) == UNION {[1..k -> alphabet] : k \in 0..n}

\* s.rstrip(ch) that removed one character at most
RstripOnce(s, ch) ==
    IF s # <<>> /\ s[Len(s)] = ch THEN SubSeq(s, 1, Len(s) - 1) ELSE s

RECURSIVE rstrip(_, _)
\* s.rstrip(ch)
rstrip(s, ch) ==
    IF s # <<>> /\ s[Len(s)] = ch THEN rstrip(SubSeq(s, 1, Len(s) - 1), ch) ELSE s

ConfigurationError == Exc("ConfigurationError", 0)

NoConfig == [server_url |-> <<>>, username |-> <<>>, password |-> <<>>,
             project |-> PyNone, batch_size |-> 0]

\* a validation that let any batch size through
PostInitAnyBatchSize(self) ==
    IF self.server_url = <<>> THEN [exc |-> ConfigurationError, self |-> NoConfig]
    ELSE IF self.username = <<>> THEN [exc |-> ConfigurationError, self |-> NoConfig]
    ELSE IF self.password = <<>> THEN [exc |-> ConfigurationError, self |-> NoConfig]
    ELSE [exc |-> NoExc,
          self |-> [self EXCEPT !.server_url = rstrip(self.server_url, "/")]]

\* Config.__post_init__: the object it leaves, or what it raises
__post_init__(self) ==
    IF self.server_url = <<>> THEN [exc |-> ConfigurationError, self |-> NoConfig]
    ELSE IF self.username = <<>> THEN [exc |-> ConfigurationError, self |-> NoConfig]
    ELSE IF self.password = <<>> THEN [exc |-> ConfigurationError, self |-> NoConfig]
    ELSE IF self.batch_size <= 0 THEN [exc |-> ConfigurationError, self |-> NoConfig]
    ELSE [exc |-> NoExc,
          self |-> [self EXCEPT !.server_url = rstrip(self.server_url, "/")]]

\* Config(server_url, username, password, project, batch_size)
Config(server_url, username, password, project, batch_size) ==
    __post_init__([server_url |-> server_url, username |-> username,
                   password |-> password, project |-> project,
                   batch_size |-> batch_size])

Digit(c) ==
    CASE c = "0" -> 0 [] c = "1" -> 1 [] c = "2" -> 2 [] c = "3" -> 3
      [] c = "4" -> 4 [] c = "5" -> 5 [] c = "6" -> 6 [] c = "7" -> 7
      [] c = "8" -> 8 [] c = "9" -> 9 [] OTHER -> -1

IsDigits(s) == s # <<>> /\ \A i \in 1..Len(s) : Digit(s[i]) >= 0

RECURSIVE Decimal(_)
\* the number a sequence of digits writes
Decimal(s) ==
    IF s = <<>> THEN 0
    ELSE 10 * Decimal(SubSeq(s, 1, Len(s) - 1)) + Digit(s[Len(s)])

ValueError == Exc("ValueError", 0)

\* int(s) of a str of digits, "-" and other characters
int(s) ==
    IF IsDigits(s) THEN [exc |-> NoExc, value |-> Decimal(s)]
    ELSE IF s # <<>> /\ s[1] = "-" /\ IsDigits(Tail(s))
    THEN [exc |-> NoExc, value |-> 0 - Decimal(Tail(s))]
    ELSE [exc |-> ValueError, value |-> 0]

DigitChar(d) ==
    CASE d = 0 -> "0" [] d = 1 -> "1" [] d = 2 -> "2" [] d = 3 -> "3"
      [] d = 4 -> "4" [] d = 5 -> "5" [] d = 6 -> "6" [] d = 7 -> "7"
      [] d = 8 -> "8" [] OTHER -> "9"

RECURSIVE Digits(_)
\* the decimal digits of a number n >= 0
Digits(n) == IF n < 10 THEN <<DigitChar(n)>> ELSE Digits(n \div 10) \o <<DigitChar(n % 10)>>

\* f"{n}" of an int
FormatInt(n) == IF n < 0 THEN <<"-">> \o Digits(0 - n) ELSE Digits(n)

\* f"{v}" of a str or None
Format(v) == IF v.t = "None" THEN <<"N", "o", "n", "e">> ELSE v.s

\* an environment variable that is not set
Unset == PyNone

\* os.environ.get(name, default)
Get(environ, name, default) ==
    IF environ[name] = Unset THEN default ELSE environ[name].s

\* os.environ.get(name)
GetOrNone(environ, name) == environ[name]

DefaultBatchSize == <<"1", "0", "0", "0">>

\* a from_env() that let the ValueError of int() out
FromEnvStrict(environ) ==
    LET batch_size_str == Get(environ, "JIRA_BATCH_SIZE", DefaultBatchSize)
        parsed == int(batch_size_str)
    IN  IF parsed.exc # NoExc THEN [exc |-> parsed.exc, self |-> NoConfig]
        ELSE Config(Get(environ, "JIRA_SERVER_URL", <<>>),
                    Get(environ, "JIRA_USERNAME", <<>>),
                    Get(environ, "JIRA_PASSWORD", <<>>),
                    GetOrNone(environ, "JIRA_PROJECT"),
                    parsed.value)

\* a from_env() that took the default for every batch size it cannot use
FromEnvLenient(environ) ==
    LET batch_size_str == Get(environ, "JIRA_BATCH_SIZE", DefaultBatchSize)
        parsed == int(batch_size_str)
        batch_size == IF parsed.exc # NoExc \/ parsed.value <= 0
                      THEN 1000 ELSE parsed.value
    IN  Config(Get(environ, "JIRA_SERVER_URL", <<>>),
               Get(environ, "JIRA_USERNAME", <<>>),
               Get(environ, "JIRA_PASSWORD", <<>>),
               GetOrNone(environ, "JIRA_PROJECT"),
               batch_size)

\* Config.from_env()
from_env(environ) ==
    LET batch_size_str == Get(environ, "JIRA_BATCH_SIZE", DefaultBatchSize)
        parsed == int(batch_size_str)
        batch_size == IF parsed.exc # NoExc THEN 1000 ELSE parsed.value
    IN  Config(Get(environ, "JIRA_SERVER_URL", <<>>),
               Get(environ, "JIRA_USERNAME", <<>>),
               Get(environ, "JIRA_PASSWORD", <<>>),
               GetOrNone(environ, "JIRA_PROJECT"),
               batch_size)

ReprServerUrl ==
    <<"C", "o", "n", "f", "i", "g", "(", "s", "e", "r", "v", "e", "r", "_",
      "u", "r", "l", "=", "'">>

ReprUsername ==
    <<"'", ",", " ", "u", "s", "e", "r", "n", "a", "m", "e", "=", "'">>

ReprPassword ==
    <<"'", ",", " ", "p", "a", "s", "s", "w", "o", "r", "d", "=", "'">>

\* the fixed text printed where the password is
Redacted == <<"*", "*", "*">>

ReprProject ==
    <<"'", ",", " ", "p", "r", "o", "j", "e", "c", "t", "=", "'">>

ReprBatchSize ==
    <<"'", ",", " ", "b", "a", "t", "c", "h", "_", "s", "i", "z", "e", "=">>

\* a __repr__ that printed the password as it prints the other fields
ReprWithPassword(self) ==
    ReprServerUrl \o self.server_url \o ReprUsername \o self.username
    \o ReprPassword \o self.password \o ReprProject \o Format(self.project)
    \o ReprBatchSize \o FormatInt(self.batch_size) \o <<")">>

\* Config.__repr__
__repr__(self) ==
    ReprServerUrl \o self.server_url \o ReprUsername \o self.username
    \o ReprPassword \o Redacted \o ReprProject \o Format(self.project)
    \o ReprBatchSize \o FormatInt(self.batch_size) \o <<")">>

\* the arguments of Config(...)
ServerUrls == Strs({"h", "/"}, MaxStr)

Usernames == Strs({"u"}, MaxStr)

Passwords == Strs({"u", "*"}, MaxStr)

ProjectArgs == {PyNone, PyStr(<<"P">>)}

BatchSizeArgs == -1..MaxBatch

\* the environments of from_env(): each variable unset or set
Environs ==
    [JIRA_SERVER_URL : {Unset} \cup {PyStr(x) : x \in ServerUrls},
     JIRA_USERNAME : {Unset, PyStr(<<"u">>)},
     JIRA_PASSWORD : {Unset, PyStr(<<"*">>)},
     JIRA_PROJECT : ProjectArgs,
     JIRA_BATCH_SIZE : {Unset} \cup {PyStr(x) : x \in Strs({"-", "0", "1", "x"}, MaxStr)}]

\* what constructing a Config gives the caller
Constructed(r) == IF r.exc # NoExc THEN Raise(r.exc) ELSE Return(<<r.self>>)

\* Config(server_url, username, password, project, batch_size) called directly
NewConfig ==
    /\ CanCall
    /\ \E server_url \in ServerUrls, username \in Usernames, password \in Passwords,
          project \in ProjectArgs, batch_size \in BatchSizeArgs :
         /\ frame' = [op |-> "Config", pc |-> "done",
                      args |-> [server_url |-> server_url, username |-> username,
                                password |-> password, project |-> project,
                                batch_size |-> batch_size]]
         /\ result' = Constructed(Config(server_url, username, password, project,
                                         batch_size))
    /\ calls' = <<>>
    /\ UNCHANGED <<session, server, command>>

\* Config.from_env() called directly
FromEnv ==
    /\ CanCall
    /\ \E environ \in Environs :
         /\ frame' = [op |-> "from_env", pc |-> "done", environ |-> environ]
         /\ result' = Constructed(from_env(environ))
    /\ calls' = <<>>
    /\ UNCHANGED <<session, server, command>>

\* repr(config) of a Config that construction returned
Repr ==
    /\ CanCall
    /\ \E server_url \in ServerUrls, username \in Usernames, password \in Passwords,
          project \in ProjectArgs, batch_size \in BatchSizeArgs :
         LET r == Config(server_url, username, password, project, batch_size)
         IN  /\ r.exc = NoExc
             /\ frame' = [op |-> "__repr__", pc |-> "done", self |-> r.self]
             /\ result' = Return(<<__repr__(r.self)>>)
    /\ calls' = <<>>
    /\ UNCHANGED <<session, server, command>>

-----------------------------------------------------------------------------
(* The command line: fetch_issues_command and fetch_changelog_command *)

\* the classes that except JiraToolsError catches
JiraToolsErrors ==
    {"JiraToolsError", "ConfigurationError", "AuthenticationError",
     "ConnectionError", "FetchError"}

\* str(e): the message of the exception, named here by its class
Message(e) == e[1].type

\* a printed line; n is the number it prints, if it prints one
Line(text, n) == [text |-> text, n |-> n]

NoFile == [path |-> Null, format |-> Null, rows |-> 0]

\* a command in its with block
Command(name, output, format) ==
    [name |-> name, pc |-> "body", output |-> output, format |-> format,
     raised |-> NoExc, returned |-> <<>>, stderr |-> <<>>, stdout |-> <<>>,
     written |-> NoFile]

\* the command, once e was raised in its try block
Failed(cmd, e) ==
    IF e[1].type \in JiraToolsErrors
    THEN [cmd EXCEPT !.pc = "exited", !.raised = e, !.returned = <<1>>,
                     !.stderr = <<Line("Error: " \o Message(e), 0)>>]
    ELSE [cmd EXCEPT !.pc = "escaped", !.raised = e]

\* df.empty
empty(df) == Len(df) = 0

NoneFound(name) ==
    IF name = "issues" THEN "No issues found." ELSE "No changelog entries found."

Saved(name) ==
    IF name = "issues" THEN "Saved n issues to " ELSE "Saved n changelog entries to "

\* a command that wrote the file of a result without rows
CompletedWritesEmpty(cmd, df) ==
    IF cmd.output # Null
    THEN [cmd EXCEPT !.pc = "exited", !.returned = <<0>>,
                     !.written = [path |-> cmd.output, format |-> cmd.format,
                                  rows |-> Len(df)],
                     !.stdout = <<Line(Saved(cmd.name) \o cmd.output, Len(df))>>]
    ELSE [cmd EXCEPT !.pc = "exited", !.returned = <<0>>,
                     !.stdout = <<Line("df.to_string()", Len(df))>>]

\* the command, once its fetch returned df
Completed(cmd, df) ==
    IF empty(df)
    THEN [cmd EXCEPT !.pc = "exited", !.returned = <<0>>,
                     !.stderr = <<Line(NoneFound(cmd.name), 0)>>]
    ELSE IF cmd.output # Null
    THEN [cmd EXCEPT !.pc = "exited", !.returned = <<0>>,
                     !.written = [path |-> cmd.output, format |-> cmd.format,
                                  rows |-> Len(df)],
                     !.stdout = <<Line(Saved(cmd.name) \o cmd.output, Len(df))>>]
    ELSE [cmd EXCEPT !.pc = "exited", !.returned = <<0>>,
                     !.stdout = <<Line("df.to_string()", Len(df))>>]

\* an environment that sets every variable, with that batch size
Environ(batch_size) ==
    [JIRA_SERVER_URL |-> PyStr(<<"h">>), JIRA_USERNAME |-> PyStr(<<"u">>),
     JIRA_PASSWORD |-> PyStr(<<"*">>), JIRA_PROJECT |-> Unset,
     JIRA_BATCH_SIZE |-> PyStr(FormatInt(batch_size))]

\* the environments a command runs in: complete, without password, batch size 0
CommandEnvirons ==
    {Environ(b) : b \in BatchSizes}
    \cup {[Environ(1) EXCEPT !.JIRA_PASSWORD = Unset], Environ(0)}

Formats == {"csv", "json", "excel"}

\* --output and --format: no output, or a path and a format
CommandArgs ==
    {[output |-> Null, format |-> "csv"]}
    \cup {[output |-> "out", format |-> f] : f \in Formats}

\* the try block of a command up to the fetch: Config.from_env(), then
\* JiraClient(config).__enter__(), then the call of the fetch
CommandEnter(cmd, environ, hs, project, jql_filter) ==
    LET config == from_env(environ)
        r == connect(Cl, hs[1], hs[2])
    IN  IF config.exc # NoExc
        THEN /\ command' = Failed(cmd, config.exc)
             /\ UNCHANGED <<session, frame>>
        ELSE /\ SetClient(r.c)
             /\ IF r.exc # NoExc
                THEN /\ command' = Failed(cmd, r.exc)
                     /\ UNCHANGED frame
                ELSE /\ command' = cmd
                     /\ frame' = IF cmd.name = "issues"
                                 THEN IssuesFrame(ProjectJql(project, jql_filter),
                                                  <<>>, config.self.batch_size)
                                 ELSE ProjectFrame(project, jql_filter,
                                                   config.self.batch_size)

\* a new process runs one command on a client of its own
CommandStart(name) ==
    /\ command = NoCommand
    /\ CanCall
    /\ opened = 0
    /\ \E environ \in CommandEnvirons, a \in CommandArgs, hs \in ConnectOutcomes,
          project \in Projects, jql_filter \in JqlFilters :
         CommandEnter(Command(name, a.output, a.format), environ, hs,
                      project, jql_filter)
    /\ calls' = <<>>
    /\ result' = NoResult
    /\ UNCHANGED server

\* fetch_issues_command(project, output, jql_filter, format), up to the fetch
FetchIssuesCommand == CommandStart("issues")

\* fetch_changelog_command(project, output, jql_filter, format), up to the fetch
FetchChangelogCommand == CommandStart("changelog")

\* the fetch of the command returned or raised: __exit__ runs, then the rest
\* of the with block or the except clause
CommandReturns ==
    /\ command.pc = "body"
    /\ frame.pc = "done"
    /\ SetClient(disconnect(Cl))
    /\ command' = IF result.kind = "raise"
                  THEN Failed(command, result.exc)
                  ELSE Completed(command, result.table)
    /\ UNCHANGED <<server, frame, calls, result>>

-----------------------------------------------------------------------------
(* The caller *)

\* the call is over: the caller has its table or its exception and goes on
CallReturns ==
    /\ frame.pc = "done"
    /\ frame' = Idle
    /\ calls' = <<>>
    /\ result' = NoResult
    /\ UNCHANGED <<session, server, command>>

Init ==
    /\ _client = None
    /\ opened = 0
    /\ alive = {}
    /\ closed = <<>>
    /\ lastConnect = "none"
    /\ server = FixtureServer
    /\ frame = Idle
    /\ calls = <<>>
    /\ result = NoResult
    /\ command = NoCommand

Next ==
    \/ Connect
    \/ Disconnect
    \/ ClientProperty
    \/ SearchIssues
    \/ GetIssue
    \/ FetchIssues
    \/ FetchProjectIssues
    \/ FetchIssuesSearch
    \/ FetchChangelog
    \/ FetchChangelogsForIssues
    \/ FetchChangelogsKey
    \/ FetchChangelogsForProject
    \/ FetchProjectKeys
    \/ CallReturns

Spec == Init /\ [][Next]_vars

\* fetch_changelog against a server that holds any issue within the bounds
InitChangelog ==
    /\ _client = None
    /\ opened = 0
    /\ alive = {}
    /\ closed = <<>>
    /\ lastConnect = "none"
    /\ server \in {[k \in ServerKeys |-> shape @@ FixtureFields(k)] :
                      shape \in IssueShapes}
    /\ frame = Idle
    /\ calls = <<>>
    /\ result = NoResult
    /\ command = NoCommand

NextChangelog ==
    \/ FetchChangelog
    \/ CallReturns

SpecChangelog == InitChangelog /\ [][NextChangelog]_vars

\* the settings: constructed from arguments, from the environment, and printed
NextConfig ==
    \/ NewConfig
    \/ FromEnv
    \/ Repr
    \/ CallReturns

SpecConfig == Init /\ [][NextConfig]_vars

\* one process that runs one command
NextCli ==
    \/ FetchIssuesCommand
    \/ FetchChangelogCommand
    \/ FetchIssuesSearch
    \/ FetchProjectKeys
    \/ FetchChangelogsKey
    \/ CommandReturns

SpecCli == Init /\ [][NextCli]_vars

\* the flattening of one issue at a time
NextFields == ExtractIssueFields \/ CallReturns

SpecFields == Init /\ [][NextFields]_vars

\* the calls on the client alone: connect, disconnect and the three that need
\* the handle
NextSession ==
    \/ Connect
    \/ Disconnect
    \/ ClientProperty
    \/ SearchIssues
    \/ GetIssue
    \/ CallReturns

SpecSession == Init /\ [][NextSession]_vars

\* the fetchers on a client that nothing else uses
NextFetch ==
    \/ FetchIssues
    \/ FetchProjectIssues
    \/ FetchIssuesSearch
    \/ FetchChangelogsForIssues
    \/ FetchChangelogsKey
    \/ FetchChangelogsForProject
    \/ FetchProjectKeys
    \/ CallReturns

SpecFetch == Init /\ [][NextFetch]_vars

\* the loop of _fetch_all_issues run on: the while True has no wait in it, so
\* a turn that can be taken is taken once the search before it has answered
NextLoop == FetchIssues \/ FetchProjectIssues \/ FetchIssuesSearch \/ CallReturns

SpecLoop == Init /\ [][NextLoop]_vars /\ WF_vars(FetchIssuesSearch)

-----------------------------------------------------------------------------
(* Properties *)

\* the calls of the running operation that raised
Raised == {i \in 1..Len(calls) : calls[i].exc # NoExc}

\* C1: fetch_issues with page size N against pages of lengths N, .., N, k
\* (k < N) makes exactly one search call per page, the i-th at offset
\* (i-1)*N with limit N, and returns one row per issue, in page order.
C1_Pagination ==
    frame.op = "fetch_issues" =>
      LET N == frame.batch_size
          m == Len(calls)
      IN  /\ \A i \in 1..m :
               /\ calls[i].fn = "search_issues"
               /\ calls[i].start_at = (i - 1) * N
               /\ calls[i].max_results = N
          /\ \A i \in 1..(m - 1) : calls[i].exc = NoExc /\ calls[i].n = N
          /\ (frame.pc = "search" /\ m > 0) =>
               calls[m].exc = NoExc /\ calls[m].n = N
          /\ frame.pc = "done" =>
               /\ m >= 1
               /\ calls[m].exc # NoExc \/ calls[m].n < N
               /\ calls[m].exc = NoExc =>
                    /\ result.kind = "return"
                    /\ Len(result.table) = (m - 1) * N + calls[m].n
                    /\ \A j \in 1..Len(result.table) : result.table[j].key = j

C1_Witness ==
    /\ frame.op = "fetch_issues"
    /\ frame.pc = "done"
    /\ frame.batch_size = 2
    /\ Len(calls) = 3
    /\ calls[3].exc = NoExc
    /\ calls[3].n = 1
    /\ result.kind = "return"
    /\ Len(result.table) = 5

\* C2: a search call that raises during fetch_issues, on whatever page, makes
\* the fetch raise FetchError with that exception as its cause; the issues of
\* the earlier pages are not returned.
C2_FetchErrorDiscardsPages ==
    (frame.op = "fetch_issues" /\ Raised # {}) =>
      /\ Raised = {Len(calls)}
      /\ frame.pc = "done"
      /\ result.kind = "raise"
      /\ result.exc[1].type = "FetchError"
      /\ Tail(result.exc) = calls[Len(calls)].exc
      /\ result.table = <<>>

C2_Witness ==
    /\ frame.op = "fetch_issues"
    /\ Len(calls) = 3
    /\ calls[3].exc = JIRAError(500)
    /\ Len(frame.all_issues) = 4
    /\ result.kind = "raise"

\* what flattening the issue of the i-th call gives
Flattened(i) == _extract_changelog_records(Issue(calls[i].issue_key))

\* the i-th key failed: its request raised, or its issue cannot be flattened
KeyFailed(i) ==
    \/ calls[i].exc # NoExc
    \/ /\ Issue(calls[i].issue_key).has_changelog
       /\ \E h \in 1..Len(Issue(calls[i].issue_key).histories) :
            ~Issue(calls[i].issue_key).histories[h].has_items

\* the records of the keys among the first i that did not fail, in key order
RECURSIVE RecordsOfKeys(_)
RecordsOfKeys(i) ==
    IF i = 0 THEN <<>>
    ELSE RecordsOfKeys(i - 1) \o (IF KeyFailed(i) THEN <<>> ELSE Flattened(i).records)

Fetched == Issue(frame.issue_key)

\* the changed fields of the first i history entries
RECURSIVE ItemsBefore(_, _)
ItemsBefore(histories, i) ==
    IF i = 0 THEN 0 ELSE ItemsBefore(histories, i - 1) + Len(histories[i].items)

WellFormed(issue) ==
    \A h \in 1..Len(issue.histories) : issue.histories[h].has_items

\* C4: fetch_changelog returns one record per (history entry, changed field)
\* pair, in entry order and field order within an entry, each with the issue
\* key, the entry's author (as a string, or null) and timestamp and the
\* field's values.
C4_OneRecordPerChange ==
    (/\ frame.op = "fetch_changelog"
     /\ calls[1].exc = NoExc
     /\ WellFormed(Fetched)) =>
      LET hs == Fetched.histories
      IN  /\ result.kind = "return"
          /\ Len(result.table) = ItemsBefore(hs, Len(hs))
          /\ \A h \in 1..Len(hs) : \A j \in 1..Len(hs[h].items) :
               LET rec == result.table[ItemsBefore(hs, h - 1) + j]
                   item == hs[h].items[j]
               IN  /\ rec.key = frame.issue_key
                   /\ rec.author = (IF hs[h].author = PyNone THEN PyNone
                                    ELSE PyStr(hs[h].author.printed))
                   /\ rec.date = hs[h].created
                   /\ rec.field = item.field
                   /\ rec.fieldtype = item.fieldtype
                   /\ rec.from_value = item.from
                   /\ rec.from_string = item.fromString
                   /\ rec.to_value = item.to
                   /\ rec.to_string = item.toString

C4_Witness ==
    /\ frame.op = "fetch_changelog"
    /\ calls[1].exc = NoExc
    /\ Len(Fetched.histories) = 2
    /\ WellFormed(Fetched)
    /\ Len(Fetched.histories[1].items) = 2
    /\ Len(Fetched.histories[2].items) = 1
    /\ result.kind = "return"
    /\ Len(result.table) = 3

\* C5: fetch_changelog on an issue without a changelog attribute, and on one
\* whose changelog has no entries, returns a table without rows and does
\* not raise.
C5_NoHistoryNoRows ==
    (/\ frame.op = "fetch_changelog"
     /\ calls[1].exc = NoExc
     /\ ~Fetched.has_changelog \/ Fetched.histories = <<>>) =>
      /\ result.kind = "return"
      /\ result.table = <<>>

C5_Witness ==
    /\ frame.op = "fetch_changelog"
    /\ calls[1].exc = NoExc
    /\ ~Fetched.has_changelog
    /\ result.kind = "return"
    /\ result.table = <<>>

\* C6: when the search calls of fetch_changelogs_for_project resolve no issue
\* key, the call returns a table without rows and makes no get_issue call.
C6_EmptyProjectNoIssueCall ==
    (/\ frame.op = "fetch_changelogs_for_project"
     /\ frame.pc # "keys"
     /\ Raised = {}
     /\ frame.issue_keys = <<>>) =>
      /\ frame.pc = "done"
      /\ result.kind = "return"
      /\ result.table = <<>>
      /\ \A i \in 1..Len(calls) : calls[i].fn # "get_issue"

C6_Witness ==
    /\ frame.op = "fetch_changelogs_for_project"
    /\ frame.pc = "done"
    /\ Len(calls) = 1
    /\ calls[1].exc = NoExc
    /\ calls[1].n = 0
    /\ result.kind = "return"

\* C7: a search that the transport fails (the call went out on a handle and
\* raised) inside a fetch routine, the key resolution of
\* fetch_changelogs_for_project included, reaches the caller as FetchError
\* with that exception as its cause.
C7_SearchFailureIsFetchError ==
    \A i \in 1..Len(calls) :
      (/\ frame.op \in {"fetch_issues", "fetch_changelogs_for_project"}
       /\ calls[i].fn = "search_issues"
       /\ calls[i].handle # None
       /\ calls[i].exc # NoExc) =>
        /\ result.kind = "raise"
        /\ result.exc[1].type = "FetchError"
        /\ Tail(result.exc) = calls[i].exc

\* C8: fetch_changelog raises FetchError with the original exception as its
\* cause whenever get_issue raises or the issue cannot be flattened, and
\* returns no table then.
C8_ChangelogFailureIsFetchError ==
    frame.op = "fetch_changelog" =>
      /\ calls[1].exc # NoExc =>
           /\ result.kind = "raise"
           /\ result.exc[1].type = "FetchError"
           /\ Tail(result.exc) = calls[1].exc
           /\ result.table = <<>>
      /\ (calls[1].exc = NoExc /\ ~WellFormed(Fetched)) =>
           /\ result.kind = "raise"
           /\ result.exc[1].type = "FetchError"
           /\ Tail(result.exc) = Exc("AttributeError", 0)
           /\ result.table = <<>>

C8_Witness ==
    /\ frame.op = "fetch_changelog"
    /\ calls[1].exc = NoExc
    /\ Len(Fetched.histories) = 2
    /\ Len(Fetched.histories[1].items) = 2
    /\ ~Fetched.histories[2].has_items
    /\ result.kind = "raise"

\* C9: is_connected() is true only if the latest connect attempt completed
\* its whole handshake (handle created, server_info answered) and no
\* disconnect followed.
C9_ConnectedOnlyAfterHandshake == is_connected => lastConnect = "ok"

\* C10: at most one transport handle created by the client is alive (created
\* and not yet closed) at any time.
C10_AtMostOneHandleAlive == Cardinality(alive) <= 1

-----------------------------------------------------------------------------
(* The session *)

\* the number of close() calls made on a handle
Closes(handle) == Cardinality({i \in 1..Len(closed) : closed[i] = handle})

\* C11: disconnect() on a client that holds no handle closes nothing, raises
\* nothing and leaves the client as it was; on a client that holds a handle it
\* closes that handle once and leaves the client without a handle, and no
\* handle is ever closed twice, whatever number of disconnect() calls follow.
C11_DisconnectClosesOnce ==
    [][(frame.pc = "idle" /\ frame'.op = "disconnect") =>
          /\ result'.kind = "return"
          /\ _client' = None
          /\ opened' = opened
          /\ \A h \in 1..opened' : Closes(h)' <= 1
          /\ IF _client = None
             THEN closed' = closed /\ alive' = alive
             ELSE /\ closed' = Append(closed, _client)
                  /\ alive' = alive \ {_client}
                  /\ Closes(_client) = 0]_vars

\* a disconnect() on a client whose handle an earlier disconnect() closed
C11_Witness ==
    /\ frame.op = "disconnect"
    /\ frame.held = None
    /\ closed # <<>>
    /\ result.kind = "return"

\* C12: a call that needs the handle (the client property, search_issues,
\* get_issue), made while the client holds none, calls connect() once, and when
\* that succeeds the transport call goes out on the new handle, which the
\* client then holds; made while the client holds a handle it calls no
\* connect() and goes out on that handle, which the client keeps.
C12_ImplicitConnectOnce ==
    [][(calls' # calls /\ calls' # <<>>) =>
          LET call == calls'[Len(calls')]
          IN  IF _client = None
              THEN /\ call.connects = 1
                   /\ opened' <= opened + 1
                   /\ call.handle # None =>
                         /\ call.handle = opened + 1
                         /\ opened' = opened + 1
                         /\ _client' = call.handle
                         /\ call.handle \in alive'
                   /\ call.handle = None => call.exc # NoExc
              ELSE /\ call.connects = 0
                   /\ call.handle = _client
                   /\ _client' = _client
                   /\ opened' = opened]_vars

\* a fetch whose first search connected and whose second reused the handle
C12_Witness ==
    /\ Len(calls) >= 2
    /\ calls[1].connects = 1
    /\ calls[1].exc = NoExc
    /\ calls[2].connects = 0
    /\ calls[2].handle = calls[1].handle
    /\ _client = calls[1].handle

\* what connect() raised, where the state shows a connect() that raised: the
\* connect() call itself, or the connect() of a call that found no handle
ConnectRaised ==
    (IF frame.op = "connect" /\ result.kind = "raise" THEN {result.exc} ELSE {})
    \cup {calls[i].exc : i \in {j \in 1..Len(calls) :
                                   calls[j].connects = 1 /\ calls[j].handle = None}}

\* C13: whatever makes connect() fail, it raises AuthenticationError when the
\* cause is a JIRAError of status 401 or 403 and ConnectionError for any other
\* cause, with the cause attached, and nothing else.
C13_ConnectErrorKinds ==
    \A e \in ConnectRaised :
        /\ Len(e) = 2
        /\ Tail(e) \in ConnectFailures
        /\ e[1].type \in {"AuthenticationError", "ConnectionError"}
        /\ e[1].type = "AuthenticationError" <=>
              (e[2].type = "JIRAError" /\ e[2].status_code \in {401, 403})

\* a connect() that the server refused with status 403
C13_Witness ==
    /\ frame.op = "connect"
    /\ result.kind = "raise"
    /\ result.exc = RaiseFrom("AuthenticationError", JIRAError(403))

-----------------------------------------------------------------------------
(* The settings *)

\* the settings object a finished Config(...) or from_env() returned
Built == result.table[1]

EndsWithSlash(s) == s # <<>> /\ s[Len(s)] = "/"

\* C17: Config(...) with an empty server_url, username or password, or with
\* batch_size <= 0, raises ConfigurationError and returns no object.
C17_InvalidSettingsRaise ==
    frame.op = "Config" =>
        LET a == frame.args
        IN  (\/ Len(a.server_url) = 0
             \/ Len(a.username) = 0
             \/ Len(a.password) = 0
             \/ a.batch_size <= 0) =>
                /\ result.kind = "raise"
                /\ result.exc = Exc("ConfigurationError", 0)
                /\ result.table = <<>>

\* a Config(...) whose only fault is a batch size of 0
C17_Witness ==
    /\ frame.op = "Config"
    /\ frame.args.server_url = <<"h">>
    /\ frame.args.username = <<"u">>
    /\ frame.args.password = <<"u">>
    /\ frame.args.batch_size = 0
    /\ result.kind = "raise"

\* C18: a Config that Config(...) or from_env() returned has a server_url, a
\* username and a password that are not empty, and a batch_size above 0.
C18_BuiltSettingsValid ==
    (frame.op \in {"Config", "from_env"} /\ result.kind = "return") =>
        /\ Len(Built.server_url) > 0
        /\ Len(Built.username) > 0
        /\ Len(Built.password) > 0
        /\ Built.batch_size > 0

\* C19 as stated: Config(...) keeps username and password, takes one slash
\* off a server_url that ends in a slash and keeps any other server_url.
C19_OneSlashRemoved ==
    (frame.op = "Config" /\ result.kind = "return") =>
        LET url == frame.args.server_url
        IN  /\ Built.username = frame.args.username
            /\ Built.password = frame.args.password
            /\ Built.server_url = IF EndsWithSlash(url)
                                  THEN SubSeq(url, 1, Len(url) - 1)
                                  ELSE url

\* C19: Config(...) keeps username and password, and its server_url is the
\* given one without its trailing slashes, all of them: what was removed is
\* slashes only and what is left ends in none.
C19_TrailingSlashesRemoved ==
    (frame.op = "Config" /\ result.kind = "return") =>
        LET url == frame.args.server_url
            kept == Len(Built.server_url)
        IN  /\ Built.username = frame.args.username
            /\ Built.password = frame.args.password
            /\ kept <= Len(url)
            /\ Built.server_url = SubSeq(url, 1, kept)
            /\ \A i \in (kept + 1)..Len(url) : url[i] = "/"
            /\ ~EndsWithSlash(Built.server_url)

\* a Config(...) of a server_url that ends in two slashes
C19_Witness ==
    /\ frame.op = "Config"
    /\ frame.args.server_url = <<"h", "/", "/">>
    /\ result.kind = "return"
    /\ Built.server_url = <<"h">>

\* sub occurs in s
Contains(s, sub) ==
    \E i \in 0..(Len(s) - Len(sub)) : SubSeq(s, i + 1, i + Len(sub)) = sub

\* C20 as stated: the printed form of a valid Config does not contain its
\* password and contains ***.
C20_ReprWithoutPassword ==
    frame.op = "__repr__" =>
        /\ ~Contains(result.table[1], frame.self.password)
        /\ Contains(result.table[1], Redacted)

\* C20: the printed form of a valid Config is the same whatever its password
\* is, and contains *** where the password would be.
C20_ReprIndependentOfPassword ==
    frame.op = "__repr__" =>
        /\ \A password \in Passwords :
              Len(password) > 0 =>
                __repr__([frame.self EXCEPT !.password = password]) = result.table[1]
        /\ Contains(result.table[1], ReprPassword \o Redacted \o ReprProject)

\* the printed form of a Config whose password is not the text it prints
C20_Witness ==
    /\ frame.op = "__repr__"
    /\ frame.self.password = <<"*", "u">>
    /\ frame.self.username = <<"u">>
    /\ Len(result.table[1]) > 0

-----------------------------------------------------------------------------
(* The commands *)

\* the command has left its try block: it returned, or an exception left it
CommandOver == command.pc \in {"exited", "escaped"}

\* C14: when a command is over, however it ended, every handle its client
\* opened is closed and the client holds none.
C14_ScopeReleasesHandle ==
    CommandOver => (alive = {} /\ ~is_connected)

\* C15: a command never lets an exception out; it returns 0 or 1, and when an
\* exception reached it (from the settings, from connecting or from the fetch)
\* it returns 1 and prints one line, Error: and the message, on standard error.
C15_ErrorsExitOne ==
    /\ command.pc # "escaped"
    /\ command.pc = "exited" =>
          /\ command.returned \in {<<0>>, <<1>>}
          /\ command.raised # NoExc =>
                /\ command.returned = <<1>>
                /\ command.stderr = <<Line("Error: " \o Message(command.raised), 0)>>
                /\ command.stdout = <<>>

\* C16: a command whose fetch returned a table without rows prints its
\* no-results line on standard error, returns 0 and writes no file, with
\* --output or without.
C16_EmptyResultExitsZero ==
    (command.pc = "exited" /\ result.kind = "return" /\ Len(result.table) = 0) =>
        /\ command.returned = <<0>>
        /\ command.stderr = <<Line(NoneFound(command.name), 0)>>
        /\ command.stdout = <<>>
        /\ command.written = NoFile

\* a changelog command with --output whose project has no issue
C16_Witness ==
    /\ command.name = "changelog"
    /\ command.pc = "exited"
    /\ command.output # Null
    /\ Len(calls) = 1
    /\ calls[1].exc = NoExc
    /\ result.kind = "return"
    /\ Len(result.table) = 0

-----------------------------------------------------------------------------
(* The settings from the environment *)

\* the variable is set to a str that is not empty
IsSet(v) == v.t = "str" /\ Len(v.s) > 0

\* the environment gives a server URL, a username and a password
Credentials(environ) ==
    /\ IsSet(environ.JIRA_SERVER_URL)
    /\ IsSet(environ.JIRA_USERNAME)
    /\ IsSet(environ.JIRA_PASSWORD)

DecimalDigits == {"0", "1", "2", "3", "4", "5", "6", "7", "8", "9"}

\* s without its sign
Unsigned(s) == IF s # <<>> /\ s[1] = "-" THEN Tail(s) ELSE s

\* s writes an integer: digits, after a minus sign or without one
IntegerString(s) ==
    /\ Unsigned(s) # <<>>
    /\ \A i \in 1..Len(Unsigned(s)) : Unsigned(s)[i] \in DecimalDigits

\* s writes an integer above 0
PositiveString(s) ==
    /\ IntegerString(s)
    /\ s = Unsigned(s)
    /\ \E i \in 1..Len(s) : s[i] # "0"

RECURSIVE WithoutLeadingZeros(_)
WithoutLeadingZeros(s) ==
    IF Len(s) > 1 /\ s[1] = "0" THEN WithoutLeadingZeros(Tail(s)) ELSE s

\* C21: from_env() in an environment that gives a server URL, a username and
\* a password returns a Config and raises nothing when JIRA_BATCH_SIZE is
\* unset or is not an integer string, with batch_size 1000; when it is the
\* string of an integer above 0, the Config has that integer as batch_size.
C21_BatchSizeFallback ==
    (frame.op = "from_env" /\ Credentials(frame.environ)) =>
        LET b == frame.environ.JIRA_BATCH_SIZE
        IN  /\ b.t = "None" =>
                  result.kind = "return" /\ Built.batch_size = 1000
            /\ (b.t = "str" /\ ~IntegerString(b.s)) =>
                  result.kind = "return" /\ Built.batch_size = 1000
            /\ (b.t = "str" /\ PositiveString(b.s)) =>
                  /\ result.kind = "return"
                  /\ Built.batch_size > 0
                  /\ Digits(Built.batch_size) = WithoutLeadingZeros(b.s)

\* a from_env() whose JIRA_BATCH_SIZE is no number
C21_Witness ==
    /\ frame.op = "from_env"
    /\ Credentials(frame.environ)
    /\ frame.environ.JIRA_BATCH_SIZE = PyStr(<<"1", "x">>)
    /\ result.kind = "return"
    /\ Built.batch_size = 1000

\* C28: from_env() with a JIRA_BATCH_SIZE that writes an integer of 0 or less
\* does not take the default: it raises ConfigurationError, which is what
\* Config(...) does when it is given a batch_size of 0 or less.
C28_NonPositiveBatchSizeRaises ==
    frame.op = "from_env" =>
        LET b == frame.environ.JIRA_BATCH_SIZE
        IN  (b.t = "str" /\ IntegerString(b.s) /\ ~PositiveString(b.s)) =>
                /\ result.kind = "raise"
                /\ result.exc = Exc("ConfigurationError", 0)
                /\ \A batch_size \in BatchSizeArgs :
                      batch_size <= 0 =>
                        result = Constructed(
                                   Config(Get(frame.environ, "JIRA_SERVER_URL", <<>>),
                                          Get(frame.environ, "JIRA_USERNAME", <<>>),
                                          Get(frame.environ, "JIRA_PASSWORD", <<>>),
                                          frame.environ.JIRA_PROJECT,
                                          batch_size))

\* a from_env() with credentials and a JIRA_BATCH_SIZE of -1
C28_Witness ==
    /\ frame.op = "from_env"
    /\ Credentials(frame.environ)
    /\ frame.environ.JIRA_BATCH_SIZE = PyStr(<<"-", "1">>)
    /\ result.kind = "raise"

-----------------------------------------------------------------------------
(* connect() on a client that holds a handle *)

\* C25: connect() on a client that holds a handle makes a handshake of its
\* own: JIRA(...) is called again, and when connect() returns the client
\* holds the handle that call made, not the one it held; every later call goes
\* out on the handle made last, never on one that was replaced.
C25_ReconnectReplacesHandle ==
    [][/\ (frame.pc = "idle" /\ frame'.op = "connect" /\ _client # None) =>
            /\ opened' = opened => result'.kind = "raise"
            /\ result'.kind = "return" =>
                  /\ opened' = opened + 1
                  /\ _client' = opened'
                  /\ _client' # _client
                  /\ _client' \in alive'
                  /\ lastConnect' = "ok"
       /\ (calls' # calls /\ calls' # <<>> /\ _client # None) =>
            LET call == calls'[Len(calls')]
            IN  /\ call.handle = opened
                /\ call.handle = _client
                /\ \A h \in 1..(opened - 1) : call.handle # h]_vars

\* a search on the second handle of a client whose first was never closed
C25_Witness ==
    /\ frame.op = "search_issues"
    /\ Len(calls) = 1
    /\ calls[1].handle = 2
    /\ calls[1].connects = 0
    /\ _client = 2
    /\ 1 \in alive
    /\ closed = <<>>

-----------------------------------------------------------------------------
(* A fetch on a client that cannot connect *)

\* the i-th call found no handle and its connect() raised
ConnectFailed(i) == calls[i].connects = 1 /\ calls[i].handle = None

-----------------------------------------------------------------------------
(* What one key adds to the records *)

\* what a turn of the loop over the keys appended to all_records
Added ==
    SubSeq(frame'.all_records, Len(frame.all_records) + 1, Len(frame'.all_records))

\* C27: a turn of the loop of fetch_changelogs_for_issues leaves the records
\* of the keys before it as they were and appends either nothing or one
\* record for every (history entry, changed field) of its key, all of that
\* key; an issue with a history entry that cannot be flattened appends
\* nothing, whatever number of its entries came before the bad one, and the
\* table returned is the records so gathered.
C27_KeyAddsAllOrNothing ==
    [][(frame.pc = "issues" /\ frame'.op = frame.op /\ frame'.idx = frame.idx + 1) =>
          LET issue_key == frame.issue_keys[frame.idx + 1]
              hs == Issue(issue_key).histories
              call == calls'[Len(calls')]
          IN  /\ Len(frame'.all_records) >= Len(frame.all_records)
              /\ SubSeq(frame'.all_records, 1, Len(frame.all_records))
                    = frame.all_records
              /\ Len(Added) \in {0, ItemsBefore(hs, Len(hs))}
              /\ \A j \in 1..Len(Added) : Added[j].key = issue_key
              /\ ~WellFormed(Issue(issue_key)) => Added = <<>>
              /\ call.exc # NoExc => Added = <<>>
              /\ (call.exc = NoExc /\ WellFormed(Issue(issue_key))) =>
                    Len(Added) = ItemsBefore(hs, Len(hs))
              /\ frame'.pc = "done" => result'.table = frame'.all_records]_vars

\* a key whose second history entry cannot be flattened, after a key that
\* gave its three records
C27_Witness ==
    /\ frame.op = "fetch_changelogs_for_issues"
    /\ frame.pc = "done"
    /\ frame.issue_keys = <<1, 3>>
    /\ calls[1].exc = NoExc
    /\ calls[2].exc = NoExc
    /\ Len(result.table) = 3
    /\ \A j \in 1..3 : result.table[j].key = 1

-----------------------------------------------------------------------------
(* The two loops over the pages of a search *)

\* the first n calls are the searches of a loop over the pages of jql, N
\* issues to the page: the i-th at offset (i-1)*N, each after a full page,
\* and the loop is over when a search raised or gave less than N issues
SearchLoop(n, jql, N, fields, over) ==
    /\ \A i \in 1..n :
         /\ calls[i].fn = "search_issues"
         /\ calls[i].jql = jql
         /\ calls[i].start_at = (i - 1) * N
         /\ calls[i].max_results = N
         /\ calls[i].fields = fields
    /\ \A i \in 1..(n - 1) : calls[i].exc = NoExc /\ calls[i].n = N
    /\ over <=> (n > 0 /\ (calls[n].exc # NoExc \/ calls[n].n < N))

\* the searches among the calls
Searches == {i \in 1..Len(calls) : calls[i].fn = "search_issues"}

\* the number of issues the first n searches gave
RECURSIVE Found(_)
Found(n) == IF n = 0 THEN 0 ELSE Found(n - 1) + calls[n].n

\* C24: fetch_changelogs_for_project makes the searches that
\* fetch_project_issues makes for the same project, filter and page size: the
\* query is project = '<project>', with AND <filter> after it when a filter
\* that is not empty is given, the i-th search is at offset (i-1)*N with limit
\* N, and the searches end at the first page of less than N issues or the
\* first search that raises; only the fields asked for differ, 'key' in place
\* of none. It then requests the changelog of every key the searches gave, in
\* the order they gave them, and of no other.
C24_ProjectKeysAsProjectIssues ==
    /\ frame.op = "fetch_issues" =>
          /\ frame.jql \in {"project = 'PROJ'", "project = 'PROJ' AND status = Done"}
          /\ SearchLoop(Len(calls), frame.jql, frame.batch_size, Null,
                        frame.pc = "done")
    /\ frame.op = "fetch_changelogs_for_project" =>
          LET m == Cardinality(Searches)
              query == IF frame.jql_filter = ""
                       THEN "project = '" \o frame.project \o "'"
                       ELSE "project = '" \o frame.project \o "' AND "
                              \o frame.jql_filter
          IN  /\ Searches = 1..m
              /\ SearchLoop(m, query, frame.batch_size, "key", frame.pc # "keys")
              /\ frame.pc = "keys" => Len(frame.issue_keys) = Found(m)
              /\ \A j \in 1..(Len(calls) - m) :
                    /\ calls[m + j].fn = "get_issue"
                    /\ calls[m + j].issue_key = j
                    /\ j <= Found(m)
                    /\ calls[m].exc = NoExc
              /\ (frame.pc = "done" /\ result.kind = "return") =>
                    Len(calls) - m = Found(m)
              /\ (frame.pc = "done" /\ result.kind = "raise") =>
                    Len(calls) = m /\ calls[m].exc # NoExc

\* a filtered project of two issues, a page of one issue at a time: three
\* searches, then the changelogs of the two keys
C24_Witness ==
    /\ frame.op = "fetch_changelogs_for_project"
    /\ frame.pc = "done"
    /\ frame.jql_filter = "status = Done"
    /\ frame.batch_size = 1
    /\ Len(calls) = 5
    /\ calls[3].fn = "search_issues"
    /\ calls[3].n = 0
    /\ calls[4].issue_key = 1
    /\ calls[5].issue_key = 2
    /\ result.kind = "return"

-----------------------------------------------------------------------------
(* The record of an issue *)

\* the names in a list of fields
Names(fields) == {fields[i] : i \in 1..Len(fields)}

\* fields without its i-th entry
Without(fields, i) == SubSeq(fields, 1, i - 1) \o SubSeq(fields, i + 1, Len(fields))

\* the rule of the field raises on the issue
RuleRaises(issue, field) == _get_field_value(issue, field).exc # NoExc

\* the field has no rule and the fields of the issue have no such attribute
UnknownAndAbsent(issue, field) ==
    /\ field \notin {"key"} \cup MappedFields
    /\ issue.has_fields
    /\ field \notin DOMAIN issue.fields

\* C22: _extract_issue_fields raises nothing, whatever the issue and the
\* fields: it returns a record whose keys are the requested names and no
\* other; a field whose rule raises, and a field without a rule that the
\* issue does not have, is null in it; every other requested field has the
\* value it has in the record of the list without the failing field.
C22_RecordOfRequestedFields ==
    frame.op = "_extract_issue_fields" =>
        LET issue == Issue(frame.issue_key)
            fields == frame.fields
        IN  /\ result.kind = "return"
            /\ DOMAIN result.table[1] = Names(fields)
            /\ \A field \in Names(fields) :
                  (RuleRaises(issue, field) \/ UnknownAndAbsent(issue, field)) =>
                      result.table[1][field] = PyNone
            /\ "key" \in Names(fields) => result.table[1]["key"] = frame.issue_key
            /\ \A i \in 1..Len(fields) :
                  RuleRaises(issue, fields[i]) =>
                    \A field \in Names(Without(fields, i)) :
                      result.table[1][field]
                        = _extract_issue_fields(issue, Without(fields, i))[field]

\* an issue without a description, asked for its description and its summary
C22_Witness ==
    /\ frame.op = "_extract_issue_fields"
    /\ frame.issue_key = 2
    /\ frame.fields = <<"description", "summary">>
    /\ result.kind = "return"
    /\ result.table[1]["description"] = PyNone
    /\ result.table[1]["summary"] = PyStr("")

-----------------------------------------------------------------------------
(* The end of the loop over the pages *)

\* every search so far gave a page of batch_size issues
AllFull ==
    \A i \in 1..Len(calls) :
        calls[i].exc = NoExc /\ calls[i].n = frame.batch_size

\* the while loop of _fetch_all_issues is running
Looping == frame.op = "fetch_issues" /\ frame.pc = "search"

\* fetch_issues has returned a table or raised FetchError
Terminated ==
    /\ frame.op = "fetch_issues"
    /\ frame.pc = "done"
    /\ \/ result.kind = "return"
       \/ result.kind = "raise" /\ result.exc[1].type = "FetchError"

\* C23: the loop of _fetch_all_issues is over, with a table returned or
\* FetchError raised, exactly when a search has raised or has given a page of
\* less than batch_size issues (an empty one too); as long as every page is
\* full it goes on to the next offset, whatever the number of pages, and a
\* running loop always gets to its end or to one more full page (the model
\* stops following it at MaxCalls pages; the code has no such limit).
C23_LoopEndsAtShortPage ==
    /\ [](frame.op = "fetch_issues" =>
            /\ Terminated <=> (calls # <<>> /\ ~AllFull)
            /\ Looping <=> AllFull
            /\ AllFull => /\ result = NoResult
                          /\ frame.start_at = Len(calls) * frame.batch_size)
    /\ Looping ~> (Terminated \/ (Looping /\ AllFull /\ Len(calls) = MaxCalls))

\* as many full pages as the model follows, and the loop still running
C23_Witness ==
    /\ Looping
    /\ Len(calls) = MaxCalls
    /\ AllFull
    /\ frame.start_at = MaxCalls * frame.batch_size

====
